---- MODULE Spec2Model ----
(***************************************************************************)
(* Model of the recursive git walker of id9051/got:                        *)
(*   cmd/validation.go     matchesSkipPattern, shouldSkipPath              *)
(*   cmd/root.go           getSkipList                                     *)
(*   cmd/walker.go         walkDirectories (two passes, flush, summary)    *)
(*   internal/git          IsRepository, ExecuteCommand, runCommand        *)
(* Strings are sequences of one-character strings, so that cleaning,       *)
(* splitting and trimming are computed character by character.             *)
(***************************************************************************)
EXTENDS Integers, Sequences, FiniteSets, TLC

(***************************************************************************)
(* Strings                                                                 *)
(***************************************************************************)
Sep == "/"

Dot == "."

EmptyStr == << >>

\* filepath.Separator as a one-character string
SepStr == <<Sep>>

DotStr == <<Dot>>

DotDotStr == <<Dot, Dot>>

\* git.DirName
DirName == <<".", "g", "i", "t">>

Vendor == <<"v", "e", "n", "d", "o", "r">>

VendorTools == <<"v", "e", "n", "d", "o", "r", "-", "t", "o", "o", "l", "s">>

MyVendorApp == <<"m", "y", "-", "v", "e", "n", "d", "o", "r", "-", "a", "p", "p">>

NodeModules == <<"n", "o", "d", "e", "_", "m", "o", "d", "u", "l", "e", "s">>

Lib == <<"l", "i", "b">>

App == <<"a", "p", "p">>

Readme == <<"R", "E", "A", "D", "M", "E">>

\* unicode.IsSpace restricted to the characters the model uses
IsSpace(c) == c \in {" ", "\t"}

\* strings.TrimSpace, leading part
RECURSIVE TrimLeft(_)
TrimLeft(s) ==
  IF s # EmptyStr /\ IsSpace(Head(s)) THEN TrimLeft(Tail(s)) ELSE s

\* strings.TrimSpace, trailing part
RECURSIVE TrimRight(_)
TrimRight(s) ==
  IF s # EmptyStr /\ IsSpace(s[Len(s)])
    THEN TrimRight(SubSeq(s, 1, Len(s) - 1))
    ELSE s

TrimSpace(s) == TrimRight(TrimLeft(s))

\* the backtracking loop of filepath.Clean on "..": lower w while w > dotdot
\* and the byte at (0-based) index w is not a separator
RECURSIVE CleanBack(_, _, _)
CleanBack(out, w, dotdot) ==
  IF w > dotdot /\ out[w + 1] # Sep THEN CleanBack(out, w - 1, dotdot) ELSE w

\* index just past the path element that starts at (0-based) r
RECURSIVE ElemEnd(_, _)
ElemEnd(path, r) ==
  IF r < Len(path) /\ path[r + 1] # Sep THEN ElemEnd(path, r + 1) ELSE r

\* main loop of filepath.Clean; r and dotdot are 0-based as in the source
RECURSIVE CleanLoop(_, _, _, _, _)
CleanLoop(path, rooted, r, out, dotdot) ==
  LET n == Len(path) IN
  IF r >= n THEN out
  ELSE IF path[r + 1] = Sep
    THEN CleanLoop(path, rooted, r + 1, out, dotdot)
  ELSE IF path[r + 1] = Dot /\ (r + 1 = n \/ path[r + 2] = Sep)
    THEN CleanLoop(path, rooted, r + 1, out, dotdot)
  ELSE IF path[r + 1] = Dot /\ r + 1 < n /\ path[r + 2] = Dot
          /\ (r + 2 = n \/ path[r + 3] = Sep)
    THEN IF Len(out) > dotdot
           THEN CleanLoop(path, rooted, r + 2,
                          SubSeq(out, 1, CleanBack(out, Len(out) - 1, dotdot)),
                          dotdot)
         ELSE IF ~rooted
           THEN LET o1 == IF Len(out) > 0 THEN out \o SepStr ELSE out
                    o2 == o1 \o DotDotStr
                IN CleanLoop(path, rooted, r + 2, o2, Len(o2))
         ELSE CleanLoop(path, rooted, r + 2, out, dotdot)
  ELSE LET o1 == IF (rooted /\ Len(out) # 1) \/ (~rooted /\ Len(out) # 0)
                   THEN out \o SepStr ELSE out
           e  == ElemEnd(path, r)
       IN CleanLoop(path, rooted, e, o1 \o SubSeq(path, r + 1, e), dotdot)

\* filepath.Clean (Unix)
Clean(path) ==
  IF path = EmptyStr THEN DotStr
  ELSE LET rooted == path[1] = Sep
           out == IF rooted
                    THEN CleanLoop(path, TRUE, 1, SepStr, 1)
                    ELSE CleanLoop(path, FALSE, 0, EmptyStr, 0)
       IN IF out = EmptyStr THEN DotStr ELSE out

\* strings.Split(s, sep) for a one-character separator: cur is the segment
\* being collected
RECURSIVE SplitLoop(_, _, _)
SplitLoop(s, sep, cur) ==
  IF s = EmptyStr THEN <<cur>>
  ELSE IF Head(s) = sep THEN <<cur>> \o SplitLoop(Tail(s), sep, EmptyStr)
  ELSE SplitLoop(Tail(s), sep, Append(cur, Head(s)))

Split(s, sep) == SplitLoop(s, sep, EmptyStr)

RECURSIVE StripTrailingSep(_)
StripTrailingSep(s) ==
  IF s # EmptyStr /\ s[Len(s)] = Sep
    THEN StripTrailingSep(SubSeq(s, 1, Len(s) - 1))
    ELSE s

\* 1-based position of the last separator of s, 0 when there is none
RECURSIVE LastSep(_, _)
LastSep(s, i) ==
  IF i >= 1 /\ s[i] # Sep THEN LastSep(s, i - 1) ELSE i

\* filepath.Base (Unix)
Base(path) ==
  IF path = EmptyStr THEN DotStr
  ELSE LET p == StripTrailingSep(path)
           i == LastSep(p, Len(p))
           b == IF i >= 1 THEN SubSeq(p, i + 1, Len(p)) ELSE p
       IN IF b = EmptyStr THEN SepStr ELSE b

\* filepath.Join(dir, name) as filepath.Walk uses it
Join(dir, name) ==
  IF dir = EmptyStr THEN (IF name = EmptyStr THEN EmptyStr ELSE Clean(name))
  ELSE IF name = EmptyStr THEN Clean(dir)
  ELSE Clean(dir \o SepStr \o name)

\* slices.Contains
Contains(seq, x) == \E i \in 1..Len(seq) : seq[i] = x


(***************************************************************************)
(* Bounds and input sets                                                   *)
(***************************************************************************)
MaxPathLen == 4

MaxPatLen == 2

MaxListLen == 2

MaxParts == 2

\* characters the generated paths and patterns are built from
Alphabet == {Sep, Dot, "a"}

StrsUpTo(chars, n) == UNION {[1..k -> chars] : k \in 0..n}

SeqsUpTo(elems, n) == UNION {[1..k -> elems] : k \in 0..n}

Slash(a, b) == a \o SepStr \o b

VendorCap == <<"V", "e", "n", "d", "o", "r">>

RootDir == <<"/", "r">>

\* paths handed to the matcher: every short string plus the paths of the
\* documented scenarios
PathInputs ==
  StrsUpTo(Alphabet, MaxPathLen) \cup
  { SepStr \o Slash(<<"r">>, Slash(Vendor, Lib)),
    SepStr \o Slash(<<"r">>, Slash(VendorTools, App)),
    Slash(VendorTools, <<"p", "k", "g">>),
    Slash(MyVendorApp, <<"s", "r", "c">>),
    Slash(RootDir, DirName),
    Slash(RootDir, <<" ">>),
    Slash(Vendor, <<".", ".">>) }

PatternInputs ==
  StrsUpTo(Alphabet, MaxPatLen) \cup {Vendor, VendorCap, DirName, <<" ">>}

\* entries a configured skipList may hold
ConfigEntries == {EmptyStr, <<" ">>, <<" ", "a", "\t">>}

VARIABLES
  skipListCfg,      \* viper "skipList": the configured list
  useDefaultSkips,  \* viper "useDefaultSkips" (unset reads as TRUE)
  qPath,            \* matcher query: the path
  qPattern,         \* matcher query: the pattern
  qStage,           \* "input", "matched" or "skipchecked"
  qRes              \* result of the matcher query

mvars == <<qPath, qPattern, qStage, qRes>>

cvars == <<skipListCfg, useDefaultSkips>>

(***************************************************************************)
(* cmd/root.go getSkipList, cmd/validation.go matcher                      *)
(***************************************************************************)
defaultSkips == <<NodeModules, Vendor, DirName>>

Range(seq) == {seq[i] : i \in 1..Len(seq)}

\* the keys of skipMap, trimmed, without the empty ones; the slice is built
\* in map order, which no caller depends on, so it is a set here
GetSkipListOf(cfg, useDefaults) ==
  LET skipMap == (IF useDefaults THEN Range(defaultSkips) ELSE {}) \cup Range(cfg)
  IN {TrimSpace(skip) : skip \in skipMap} \ {EmptyStr}

getSkipList == GetSkipListOf(skipListCfg, useDefaultSkips)

\* strings.Contains, the substring rule of the earlier shouldSkipPath
IsSubstring(k, s) ==
  \E i \in 1..(Len(s) - Len(k) + 1) : SubSeq(s, i, i + Len(k) - 1) = k

matchesSubstring(path, pattern) == IsSubstring(pattern, path)

\* the matcher without its guard on the empty pattern
matchesNoEmptyGuard(path, pattern) ==
  LET cleanPath == Clean(path)
      pathSegments == Split(cleanPath, Sep)
  IN \/ Contains(pathSegments, pattern)
     \/ cleanPath = pattern
     \/ Base(cleanPath) = pattern

\* validation.go:76-98
matchesSkipPattern(path, pattern) ==
  IF pattern = EmptyStr THEN FALSE
  ELSE LET cleanPath == Clean(path)
           pathSegments == Split(cleanPath, Sep)
       IN \/ Contains(pathSegments, pattern)
          \/ cleanPath = pattern
          \/ Base(cleanPath) = pattern

ShouldSkipWith(path, skipList) ==
  \E skip \in skipList : matchesSkipPattern(path, skip)

shouldSkipPath(path) == ShouldSkipWith(path, getSkipList)


(***************************************************************************)
(* Filesystem                                                              *)
(***************************************************************************)
\* error values
Nil == "nil"

Canceled == "context canceled"

DeadlineExceeded == "context deadline exceeded"

ErrOther == "other error"

SkipDir == "skip this directory"

\* byte order of the characters that occur in entry names
CharOrder ==
  <<"\t", " ", "-", ".", "/", "A", "D", "E", "M", "R", "V", "_", "a", "b",
    "d", "e", "g", "i", "k", "l", "m", "n", "o", "p", "r", "s", "t", "u",
    "v", "y">>

Rank(c) == CHOOSE i \in 1..Len(CharOrder) : CharOrder[i] = c

\* byte-wise string order, as sort.Strings in readDirNames
RECURSIVE StrLess(_, _)
StrLess(a, b) ==
  IF b = EmptyStr THEN FALSE
  ELSE IF a = EmptyStr THEN TRUE
  ELSE IF Head(a) = Head(b) THEN StrLess(Tail(a), Tail(b))
  ELSE Rank(Head(a)) < Rank(Head(b))

\* groups of entries a tree is put together from, as name sequences relative
\* to the walk root: a repository marker in the root, a file, a plain
\* directory, a repository, a repository nested in a repository, and the two
\* repositories of the exclusion scenario
TreeParts ==
  { {<<DirName>>},
    {<<Readme>>},
    {<<App>>},
    {<<Lib>>, <<Lib, DirName>>},
    {<<Lib>>, <<Lib, DirName>>, <<Lib, App>>, <<Lib, App, DirName>>},
    {<<Vendor>>, <<Vendor, Lib>>, <<Vendor, Lib, DirName>>},
    {<<VendorTools>>, <<VendorTools, App>>, <<VendorTools, App, DirName>>} }

Parent(node) == SubSeq(node, 1, Len(node) - 1)

TreeInputs ==
  {UNION parts : parts \in {ps \in SUBSET TreeParts : Cardinality(ps) <= MaxParts}}

RootInputs == {RootDir, Slash(RootDir, DirName)}

WalkConfigs ==
  { [skipList |-> << >>, useDefaults |-> TRUE],
    [skipList |-> <<Vendor>>, useDefaults |-> FALSE],
    [skipList |-> <<Base(RootDir)>>, useDefaults |-> FALSE],
    [skipList |-> << >>, useDefaults |-> FALSE] }

OpInputs == {"status", "pull", "callback"}

\* what may vanish between the passes: nothing, or the entry lib of the walk
\* root
LostInputs(t) == {{}} \cup {{n} : n \in {<<Lib>>} \cap t}

VARIABLES
  rootPath,        \* the directory walkDirectories is called on
  tree,            \* entries below rootPath
  opKind,          \* gitArgs[0] of the operation, or "callback"
  ctxErr,          \* ctx.Err()
  pc,              \* position in walkDirectories
  todo,            \* entries filepath.Walk has still to visit, in order
  inflight,        \* the entry whose operation is running
  inProgressMode,
  gitOutputBuffer,
  totalDirs,
  skipCount,
  dirCount,
  gitRepoCount,
  progress,        \* the ProgressTracker
  walkErr,         \* the value filepath.Walk returned in pass 2
  ret,             \* the value walkDirectories returned
  log,             \* what happened, in order
  summaries,       \* the summary lines printed
  cursorHidden,    \* the terminal's cursor is hidden
  lost             \* entries that vanish after pass 1: pass 2 cannot lstat them

wvars ==
  <<rootPath, tree, opKind, ctxErr, pc, todo, inflight, inProgressMode,
    gitOutputBuffer, totalDirs, skipCount, dirCount, gitRepoCount, progress,
    walkErr, ret, log, summaries, cursorHidden, lost>>

VARIABLES
  xEntry,          \* the entry point of the Executor that is called
  xNode,           \* the entry whose path it is called on
  xCalls,          \* one record per call: what it returned and what it emitted
  spinners         \* the spinner tasks started so far, in order

evars == <<xEntry, xNode, xCalls, spinners>>

VARIABLES
  tracker,         \* a ProgressTracker driven call by call
  now,             \* time.Now(), in milliseconds
  ticks,           \* how often the clock has advanced
  ptLast,          \* the last call made on tracker and what it wrote
  lastRenderAt     \* when the progress line was last written

tvars == <<tracker, now, ticks, ptLast, lastRenderAt>>

vars == <<cvars, mvars, wvars, evars, tvars>>

RECURSIVE JoinAll(_, _)
JoinAll(dir, names) ==
  IF names = << >> THEN dir ELSE JoinAll(Join(dir, Head(names)), Tail(names))

\* the path filepath.Walk hands to the callback for an entry
PathOf(node) == JoinAll(rootPath, node)

\* info.IsDir()
IsDirNode(node) == node = << >> \/ node[Len(node)] # Readme

Nodes == tree \cup {<< >>}

\* os.Stat(p) succeeds
Exists(p) == \E e \in Nodes : PathOf(e) = p

\* git.IsRepository
IsRepository(path) == Exists(Join(path, DirName))

isGitRepository(path) == IsRepository(path)

ChildrenOf(node) == {e \in tree : Len(e) = Len(node) + 1 /\ Parent(e) = node}

RECURSIVE SortNodes(_)
SortNodes(S) ==
  IF S = {} THEN << >>
  ELSE LET m == CHOOSE x \in S :
                  \A y \in S \ {x} : StrLess(x[Len(x)], y[Len(y)])
       IN <<m>> \o SortNodes(S \ {m})

\* readDirNames: the names of a directory, sorted
readDirNames(node) == SortNodes(ChildrenOf(node))

Ev(e, path) == [ev |-> e, path |-> path]


(***************************************************************************)
(* cmd/walker.go walkDirectories                                           *)
(***************************************************************************)
\* pass 1 callback (walker.go:36-60): what it returns and whether it counts
CountCallback(node) ==
  LET path == PathOf(node) IN
  IF ~IsDirNode(node) THEN [verdict |-> Nil, counted |-> FALSE]
  ELSE IF Base(path) = DirName THEN [verdict |-> SkipDir, counted |-> FALSE]
  ELSE IF shouldSkipPath(path) THEN [verdict |-> SkipDir, counted |-> FALSE]
  ELSE IF isGitRepository(path) THEN [verdict |-> SkipDir, counted |-> TRUE]
  ELSE [verdict |-> Nil, counted |-> TRUE]

\* filepath.Walk driving the pass 1 callback over the entries in stack
RECURSIVE Pass1(_, _)
Pass1(stack, acc) ==
  IF stack = << >> THEN acc
  ELSE LET node == Head(stack)
           r == CountCallback(node)
           seen == Append(acc.log, Ev("p1visit", PathOf(node)))
           acc1 == [total |-> acc.total + (IF r.counted THEN 1 ELSE 0),
                    log |-> IF r.counted
                              THEN Append(seen, Ev("p1count", PathOf(node)))
                              ELSE seen]
       IN IF r.verdict = Nil /\ IsDirNode(node)
            THEN Pass1(readDirNames(node) \o Tail(stack), acc1)
            ELSE Pass1(Tail(stack), acc1)

\* NewProgressTracker
NewProgressTracker ==
  [total |-> 0, current |-> 0, gitRepoCount |-> 0, currentPath |-> EmptyStr,
   started |-> FALSE, finished |-> FALSE]

\* NewProgressTracker sets showProgress
showProgress == TRUE

\* ProgressTracker.Start: the cursor is hidden
cursorAfterStart(hidden) == IF showProgress THEN TRUE ELSE hidden

\* a Finish that leaves the cursor as it is
cursorLeftAsIs(hidden) == hidden

\* ProgressTracker.Finish: the cursor is shown again

cursorAfterFinish(hidden) == IF showProgress THEN FALSE ELSE hidden

\* an Update that counts every directory as a repository
TrackerUpdateCountsAll(pt, path, isGitRepo) ==
  [pt EXCEPT !.current = @ + 1,
             !.currentPath = path,
             !.gitRepoCount = @ + 1]

\* ProgressTracker.Update: the counters
TrackerUpdate(pt, path, isGitRepo) ==
  [pt EXCEPT !.current = @ + 1,
             !.currentPath = path,
             !.gitRepoCount = IF isGitRepo THEN @ + 1 ELSE @]

\* walker.go:28-74: progress mode on, buffer cleared, pass 1, tracker started
WalkStart ==
  /\ pc = "idle"
  /\ LET p1 == Pass1(<< << >> >>, [total |-> 0, log |-> log]) IN
       /\ totalDirs' = p1.total
       /\ log' = Append(p1.log, Ev("start", rootPath))
       /\ progress' = [NewProgressTracker EXCEPT !.total = p1.total,
                                                 !.started = TRUE]
  /\ inProgressMode' = TRUE
  /\ gitOutputBuffer' = << >>
  /\ skipCount' = 0
  /\ dirCount' = 0
  /\ gitRepoCount' = 0
  /\ cursorHidden' = cursorAfterStart(cursorHidden)
  /\ todo' = << << >> >>
  /\ pc' = "pass2"
  /\ UNCHANGED <<rootPath, tree, opKind, ctxErr, inflight, walkErr, ret,
                 summaries>>
  /\ UNCHANGED lost
  /\ UNCHANGED <<cvars, mvars, evars, tvars>>

\* filepath.Walk after the callback returned verdict for node
WalkAdvance(node, rest, verdict) ==
  /\ todo' = IF verdict = Nil
               THEN (IF IsDirNode(node) THEN readDirNames(node) ELSE << >>) \o rest
             ELSE IF verdict = SkipDir THEN rest
             ELSE << >>
  /\ walkErr' = IF verdict \in {Nil, SkipDir} THEN Nil ELSE verdict
  /\ pc' = IF todo' = << >> THEN "afterwalk" ELSE "pass2"

\* a callback that does not look at the context
ctxCheckSkipped(err) == FALSE

\* walker.go:78-82: the select on ctx.Done()

ctxDone(err) == err # Nil

\* a callback that hands every error of the operation to filepath.Walk
propagatesAnyError(err) == err # Nil

\* walker.go:118 and 126: which callback errors end the walk

propagatesError(err) == err # Nil /\ err = Canceled

\* a callback that hands the error of the walk back to filepath.Walk
walkErrorReturned == ErrOther

\* walker.go:85-88: what the callback returns after reporting a walk error

afterWalkError == Nil

\* a callback that lets the walk descend into repositories
descendAfterOperation(isGit) == Nil

\* walker.go:122 and 129: what the callback returns after the operation

afterOperation(isGit) == IF isGit THEN SkipDir ELSE Nil

\* a runCommand that starts the spinner whatever the mode
spinnerAlways(op, progressMode) == op # "status"

\* operations.go:91: the spinner is started (cmd always passes ShowSpinner)

spinnerStarted(op, progressMode) == op # "status" /\ ~progressMode

\* operations.go:67-102: the events of runCommand up to the call of the runner
runCommandHead(op, path, progressMode, l) ==
  IF spinnerStarted(op, progressMode)
    THEN Append(Append(l, Ev("spinner", path)), Ev("run", path))
    ELSE Append(l, Ev("run", path))

\* walker.go:76-130 up to the point where the operation blocks:
\* one invocation of the pass 2 callback
VisitNode ==
  /\ pc = "pass2"
  /\ LET node == Head(todo)
         rest == Tail(todo)
         path == PathOf(node)
         isGit == isGitRepository(path)
     IN
     IF ctxDone(ctxErr) THEN
       /\ WalkAdvance(node, rest, ctxErr)
       /\ UNCHANGED <<dirCount, progress, skipCount, gitRepoCount, inflight, log>>
     ELSE IF node \in lost THEN
       \* filepath.Walk hands over the error of lstat, the callback reports
       \* it and returns nil, and the walk goes on with the next name
       /\ log' = Append(log, Ev("walkerr", path))
       /\ todo' = IF afterWalkError = Nil THEN rest ELSE << >>
       /\ walkErr' = afterWalkError
       /\ pc' = IF todo' = << >> THEN "afterwalk" ELSE "pass2"
       /\ UNCHANGED <<dirCount, progress, skipCount, gitRepoCount, inflight>>
     ELSE IF ~IsDirNode(node) THEN
       /\ WalkAdvance(node, rest, Nil)
       /\ log' = Append(log, Ev("p2visit", path))
       /\ UNCHANGED <<dirCount, progress, skipCount, gitRepoCount, inflight>>
     ELSE IF Base(path) = DirName THEN
       /\ dirCount' = dirCount + 1
       /\ WalkAdvance(node, rest, SkipDir)
       /\ log' = Append(Append(log, Ev("p2visit", path)), Ev("dircount", path))
       /\ UNCHANGED <<progress, skipCount, gitRepoCount, inflight>>
     ELSE
       /\ dirCount' = dirCount + 1
       /\ progress' = TrackerUpdate(progress, path, isGit)
       /\ LET l0 == Append(Append(Append(log, Ev("p2visit", path)),
                                  Ev("dircount", path)), Ev("update", path))
          IN
          IF shouldSkipPath(path) THEN
            /\ skipCount' = skipCount + 1
            /\ log' = Append(l0, Ev("skipmsg", path))
            /\ WalkAdvance(node, rest, SkipDir)
            /\ UNCHANGED <<gitRepoCount, inflight>>
          ELSE
            /\ gitRepoCount' = IF isGit THEN gitRepoCount + 1 ELSE gitRepoCount
            /\ skipCount' = skipCount
            /\ IF opKind # "callback" /\ ~IsRepository(path) THEN
                 \* git.ExecuteCommand returns nil for a non-repository
                 /\ log' = Append(l0, Ev("op", path))
                 /\ WalkAdvance(node, rest, afterOperation(isGit))
                 /\ inflight' = inflight
               ELSE
                 /\ log' = IF opKind = "callback"
                             THEN Append(l0, Ev("op", path))
                             ELSE runCommandHead(opKind, path, inProgressMode,
                                                 Append(l0, Ev("op", path)))
                 /\ inflight' = [node |-> node, isGit |-> isGit]
                 /\ todo' = rest
                 /\ pc' = "running"
                 /\ walkErr' = walkErr
  /\ UNCHANGED <<rootPath, tree, opKind, ctxErr, inProgressMode,
                 gitOutputBuffer, totalDirs, ret, summaries, cursorHidden>>
  /\ UNCHANGED lost
  /\ UNCHANGED <<cvars, mvars, evars, tvars>>


(***************************************************************************)
(* internal/git/operations.go runCommand, from the return of the runner    *)
(***************************************************************************)
\* what runner.RunGitCommand may hand back: "out" is success with output,
\* "empty" success without output, "fail" a non-nil error
RunnerOutcomes == {"out", "empty", "fail"}

\* operations.go:123: the captured output is shown or kept
hasOutput(op, outcome) == op = "status" /\ outcome = "out"

\* a runCommand that keeps the output in either mode
buffersOutputAlways(progressMode) == TRUE

\* operations.go:124: the captured output is kept for the flush

buffersOutput(progressMode) == progressMode

\* runCommand keeping a failure in the buffer as well as reporting it
runCommandTailBuffersFailure(op, path, outcome, progressMode, cerr, l, buf) ==
  LET l0 == IF outcome = "fail" THEN Append(l, Ev("runerr", path)) ELSE l
      l1 == IF spinnerStarted(op, progressMode)
              THEN Append(l0, Ev("spinnerstop", path))
              ELSE l0
  IN
  IF cerr # Nil
    THEN [err |-> cerr, log |-> Append(l1, Ev("ctxret", path)), buffer |-> buf]
  ELSE IF outcome = "fail"
    THEN [err |-> Nil, log |-> Append(l1, Ev("logerror", path)),
          buffer |-> Append(buf, [path |-> path, output |-> "", error |-> ErrOther])]
  ELSE LET shown == hasOutput(op, outcome)
           kept == shown /\ buffersOutput(progressMode)
           buf1 == IF kept
                     THEN Append(buf, [path |-> path, output |-> "out", error |-> Nil])
                     ELSE buf
           l2 == IF kept THEN Append(l1, Ev("append", path)) ELSE l1
           l3 == IF shown /\ ~progressMode THEN Append(l2, Ev("print", path)) ELSE l2
       IN [err |-> Nil, log |-> Append(l3, Ev("logsuccess", path)), buffer |-> buf1]

\* operations.go:102-147: the events runCommand emits and the entry it appends
\* once the runner has returned, as [err, log, buffer]
runCommandTail(op, path, outcome, progressMode, cerr, l, buf) ==
  LET l0 == IF outcome = "fail" THEN Append(l, Ev("runerr", path)) ELSE l
      l1 == IF spinnerStarted(op, progressMode)
              THEN Append(l0, Ev("spinnerstop", path))
              ELSE l0
  IN
  IF cerr # Nil
    THEN [err |-> cerr, log |-> Append(l1, Ev("ctxret", path)), buffer |-> buf]
  ELSE IF outcome = "fail"
    THEN [err |-> Nil, log |-> Append(l1, Ev("logerror", path)), buffer |-> buf]
  ELSE LET shown == hasOutput(op, outcome)
           kept == shown /\ buffersOutput(progressMode)
           buf1 == IF kept
                     THEN Append(buf, [path |-> path, output |-> "out", error |-> Nil])
                     ELSE buf
           l2 == IF kept THEN Append(l1, Ev("append", path)) ELSE l1
           l3 == IF shown /\ ~progressMode THEN Append(l2, Ev("print", path)) ELSE l2
       IN [err |-> Nil, log |-> Append(l3, Ev("logsuccess", path)), buffer |-> buf1]

\* the operation returns to the pass 2 callback (walker.go:118-129)
OperationReturn ==
  /\ pc = "running"
  /\ LET node == inflight.node
         path == PathOf(node)
     IN \E outcome \in RunnerOutcomes, cbErr \in {Nil, ErrOther, Canceled} :
          /\ opKind = "callback" => outcome = "empty"
          /\ opKind # "callback" => cbErr = Nil
          /\ LET r == IF opKind = "callback"
                        THEN [err |-> cbErr,
                              log |-> Append(log, Ev(IF cbErr = Nil THEN "cbnil"
                                                     ELSE IF cbErr = Canceled
                                                       THEN "cbcanceled"
                                                     ELSE "cberr", path)),
                              buffer |-> gitOutputBuffer]
                        ELSE runCommandTail(opKind, path, outcome, inProgressMode,
                                            ctxErr, log, gitOutputBuffer)
             IN /\ log' = r.log
                /\ gitOutputBuffer' = r.buffer
                /\ WalkAdvance(node, todo,
                               IF propagatesError(r.err) THEN r.err
                               ELSE afterOperation(inflight.isGit))
  /\ inflight' = [node |-> << >>, isGit |-> FALSE]
  /\ UNCHANGED <<rootPath, tree, opKind, ctxErr, inProgressMode, totalDirs,
                 skipCount, dirCount, gitRepoCount, progress, ret, summaries,
                 cursorHidden>>
  /\ UNCHANGED lost
  /\ UNCHANGED <<cvars, mvars, evars, tvars>>

\* a flush loop that starts from the newest entry
RECURSIVE FlushLogNewestFirst(_, _)
FlushLogNewestFirst(buf, l) ==
  IF buf = << >> THEN l
  ELSE LET output == buf[Len(buf)]
           rest == SubSeq(buf, 1, Len(buf) - 1)
       IN IF output.error # Nil
            THEN FlushLogNewestFirst(rest, Append(l, Ev("logerror", output.path)))
            ELSE FlushLogNewestFirst(rest,
                                     Append(Append(l, Ev("print", output.path)),
                                            Ev("logsuccess", output.path)))

\* the events of the flush loop (walker.go:141-148)
RECURSIVE FlushLog(_, _)
FlushLog(buf, l) ==
  IF buf = << >> THEN l
  ELSE LET output == Head(buf)
       IN IF output.error # Nil
            THEN FlushLog(Tail(buf), Append(l, Ev("logerror", output.path)))
            ELSE FlushLog(Tail(buf),
                          Append(Append(l, Ev("print", output.path)),
                                 Ev("logsuccess", output.path)))

\* a summary that never mentions the skipped directories
summaryLineWithoutSkipped(repos, scanned, skipped) ==
  [found |-> repos > 0, repos |-> repos, scanned |-> scanned,
   mentionsSkipped |-> FALSE, skipped |-> 0]

\* walker.go:154-168: the parts of the summary line

summaryLine(repos, scanned, skipped) ==
  [found |-> repos > 0,
   repos |-> IF repos > 0 THEN repos ELSE 0,
   scanned |-> scanned,
   mentionsSkipped |-> skipped > 0,
   skipped |-> IF skipped > 0 THEN skipped ELSE 0]

\* walker.go:132-176: Finish, progress mode off, flush, summary, return
\* a walkDirectories that returns with progress mode still on
progressModeLeftOn == TRUE

\* walker.go:136: progress mode after the traversal
progressModeAfterWalk == FALSE

AfterWalk ==
  /\ pc = "afterwalk"
  /\ progress' = [progress EXCEPT !.finished = TRUE]
  /\ cursorHidden' = cursorAfterFinish(cursorHidden)
  /\ summaries' = Append(summaries, summaryLine(gitRepoCount, dirCount, skipCount))
  /\ inProgressMode' = progressModeAfterWalk
  /\ log' = Append(FlushLog(gitOutputBuffer, Append(log, Ev("finish", rootPath))),
                   Ev("summary", rootPath))
  /\ ret' = walkErr
  /\ pc' = "returned"
  /\ UNCHANGED <<rootPath, tree, opKind, ctxErr, todo, inflight, gitOutputBuffer,
                 totalDirs, skipCount, dirCount, gitRepoCount, walkErr>>
  /\ UNCHANGED lost
  /\ UNCHANGED <<cvars, mvars, evars, tvars>>

\* walkDirectories is called again in the same process, with a context of
\* its own: the locals and the output of the finished call are gone, the
\* package variables and the terminal are as the finished call left them
WalkAgain ==
  /\ pc = "returned"
  /\ pc' = "idle"
  /\ ctxErr' = Nil
  /\ totalDirs' = 0
  /\ skipCount' = 0
  /\ dirCount' = 0
  /\ gitRepoCount' = 0
  /\ progress' = NewProgressTracker
  /\ walkErr' = Nil
  /\ ret' = Nil
  /\ log' = << >>
  /\ summaries' = << >>
  /\ UNCHANGED <<rootPath, tree, opKind, todo, inflight, inProgressMode,
                 gitOutputBuffer, cursorHidden>>
  /\ UNCHANGED lost
  /\ UNCHANGED <<cvars, mvars, evars, tvars>>

\* the context becomes done: the signal handler of Execute calls globalCancel,
\* or a deadline of the caller's context passes
CtxBecomesDone ==
  /\ pc \in {"idle", "pass2", "running", "exec", "execrunning"}
  /\ ctxErr = Nil
  /\ \E e \in {Canceled, DeadlineExceeded} : ctxErr' = e
  /\ log' = Append(log, Ev("ctxdone", rootPath))
  /\ UNCHANGED <<rootPath, tree, opKind, pc, todo, inflight, inProgressMode,
                 gitOutputBuffer, totalDirs, skipCount, dirCount, gitRepoCount,
                 progress, walkErr, ret, summaries, cursorHidden>>
  /\ UNCHANGED lost
  /\ UNCHANGED <<cvars, mvars, evars, tvars>>

(***************************************************************************)
(* internal/git/operations.go: the entry points called on one path         *)
(***************************************************************************)
MaxCalls == 2

NotRepo == "not a repository error"

\* the constant part of the format "[%s] is not a git repository"
NotRepoText ==
  <<" ", "i", "s", " ", "n", "o", "t", " ", "a", " ", "g", "i", "t", " ",
    "r", "e", "p", "o", "s", "i", "t", "o", "r", "y">>

\* errors.Errorf("[%s] is not a git repository", path).Error()
Errorf(path) == <<"[">> \o path \o <<"]">> \o NotRepoText

\* statusSingle and fetchSingle of cmd, ahead of ExecuteCommandSingle
SingleWrappers == {"statusSingle", "fetchSingle"}

EntryPoints == {"ExecuteCommand", "ExecuteCommandSingle"} \cup SingleWrappers

\* the git arguments an entry point is called with
OpsOf(entry) ==
  IF entry = "statusSingle" THEN {"status"}
  ELSE IF entry = "fetchSingle" THEN {"fetch"}
  ELSE {"status", "pull"}

\* a wrapper that hands every target on
targetNeverSkipped(path) == FALSE

\* statusSingle, fetchSingle: the target is looked up in the skip rules
targetSkipped(path) == shouldSkipPath(path)

\* an ExecuteCommandSingle that is silent about a non-repository
singleNotRepositorySilent(path) == [err |-> Nil, msg |-> EmptyStr]

\* operations.go:59-61

singleNotRepository(path) == [err |-> NotRepo, msg |-> Errorf(path)]

\* an ExecuteCommand that complains about a non-repository
recursiveNotRepositoryFails(path) == [err |-> NotRepo, msg |-> Errorf(path)]

\* operations.go:49-51

recursiveNotRepository(path) == [err |-> Nil, msg |-> EmptyStr]

\* a call record: the returned error and its text, what the runner handed
\* back, the length of the log and the buffer when the call began, the length
\* of the log when it returned
CallRecord(r, outcome, from, to, buf) ==
  [err |-> r.err, msg |-> r.msg, outcome |-> outcome, from |-> from, to |-> to,
   buf |-> buf]

\* frames one spinner task may write
MaxFrames == 1

\* utils.go showSpinner: a task that waits for its ticker or for done
showSpinner == [state |-> "ticking", closes |-> 0, frames |-> 0, clears |-> 0]

\* a runCommand that forgets the done channel
doneLeftOpen(task) == task

\* operations.go:103-106: close(done)

closeDone(task) == [task EXCEPT !.closes = @ + 1]

\* the ticker case of the spinner task's select: one frame is written; the
\* select may take this case also when done is closed and a tick is due
SpinnerTick(i) ==
  /\ i \in DOMAIN spinners
  /\ spinners[i].state = "ticking"
  /\ spinners[i].frames < MaxFrames
  /\ spinners' = [spinners EXCEPT ![i].frames = @ + 1]
  /\ UNCHANGED <<xEntry, xNode, xCalls, cvars, mvars, wvars, tvars>>

\* the done case of the select: the line is cleared and the task returns
SpinnerExit(i) ==
  /\ i \in DOMAIN spinners
  /\ spinners[i].state = "ticking"
  /\ spinners[i].closes > 0
  /\ spinners' = [spinners EXCEPT ![i].clears = @ + 1, ![i].state = "stopped"]
  /\ UNCHANGED <<xEntry, xNode, xCalls, cvars, mvars, wvars, tvars>>

\* an entry point of the Executor, or a single-mode wrapper of cmd, up to the
\* call of the runner
ExecuteCall ==
  /\ pc = "exec"
  /\ Len(xCalls) < MaxCalls
  /\ LET path == PathOf(xNode) IN
     IF xEntry \in SingleWrappers /\ targetSkipped(path) THEN
       /\ log' = Append(log, Ev("logskipped", path))
       /\ xCalls' = Append(xCalls,
                      CallRecord([err |-> Nil, msg |-> EmptyStr],
                                 "none", Len(log), Len(log) + 1, gitOutputBuffer))
       /\ UNCHANGED <<pc, spinners>>
     ELSE IF ~IsRepository(path) THEN
       /\ xCalls' = Append(xCalls,
                      CallRecord(IF xEntry = "ExecuteCommand"
                                   THEN recursiveNotRepository(path)
                                   ELSE singleNotRepository(path),
                                 "none", Len(log), Len(log), gitOutputBuffer))
       /\ UNCHANGED <<pc, log, spinners>>
     ELSE
       /\ log' = runCommandHead(opKind, path, inProgressMode, log)
       /\ spinners' = IF spinnerStarted(opKind, inProgressMode)
                        THEN Append(spinners, showSpinner)
                        ELSE spinners
       /\ xCalls' = Append(xCalls,
                      CallRecord([err |-> "pending", msg |-> EmptyStr],
                                 "none", Len(log), Len(log), gitOutputBuffer))
       /\ pc' = "execrunning"
  /\ UNCHANGED <<rootPath, tree, opKind, ctxErr, todo, inflight, inProgressMode,
                 gitOutputBuffer, totalDirs, skipCount, dirCount, gitRepoCount,
                 progress, walkErr, ret, summaries, cursorHidden>>
  /\ UNCHANGED lost
  /\ UNCHANGED <<xEntry, xNode, cvars, mvars, tvars>>

\* runCommand from the return of the runner to its own return
ExecuteReturn ==
  /\ pc = "execrunning"
  /\ \E outcome \in RunnerOutcomes :
       LET r == runCommandTail(opKind, PathOf(xNode), outcome, inProgressMode,
                               ctxErr, log, gitOutputBuffer)
           c == xCalls[Len(xCalls)]
       IN /\ log' = r.log
          /\ gitOutputBuffer' = r.buffer
          /\ xCalls' = [xCalls EXCEPT ![Len(xCalls)] =
                          CallRecord([err |-> r.err, msg |-> EmptyStr],
                                     outcome, c.from, Len(r.log), c.buf)]
  /\ spinners' = IF spinnerStarted(opKind, inProgressMode)
                   THEN [spinners EXCEPT ![Len(spinners)] = closeDone(@)]
                   ELSE spinners
  /\ pc' = "exec"
  /\ UNCHANGED <<rootPath, tree, opKind, ctxErr, todo, inflight, inProgressMode,
                 totalDirs, skipCount, dirCount, gitRepoCount, progress,
                 walkErr, ret, summaries, cursorHidden>>
  /\ UNCHANGED lost
  /\ UNCHANGED <<xEntry, xNode, cvars, mvars, tvars>>

(***************************************************************************)
(* Specifications                                                          *)
(***************************************************************************)
WalkerIdle ==
  /\ ctxErr = Nil
  /\ pc = "idle"
  /\ todo = << >>
  /\ inflight = [node |-> << >>, isGit |-> FALSE]
  /\ inProgressMode = FALSE
  /\ gitOutputBuffer = << >>
  /\ totalDirs = 0
  /\ skipCount = 0
  /\ dirCount = 0
  /\ gitRepoCount = 0
  /\ progress = NewProgressTracker
  /\ walkErr = Nil
  /\ ret = Nil
  /\ log = << >>
  /\ summaries = << >>
  /\ cursorHidden = FALSE

\* the zero value of time.Time: before every instant of the clock
ZeroTime == -1

Calculating == [fmt |-> "calculating...", a |-> 0, b |-> 0, beyond |-> FALSE]

\* NewProgressTracker with the fields of the timed display
NewTimedTracker ==
  [total |-> 0, current |-> 0, gitRepoCount |-> 0, currentPath |-> EmptyStr,
   started |-> FALSE, finished |-> FALSE,
   lastUpdate |-> ZeroTime, startTime |-> ZeroTime, lastETAUpdate |-> ZeroTime,
   cachedETA |-> Calculating]

NoCall == [call |-> "none", isGitRepo |-> FALSE, writes |-> << >>]

TrackerIdle ==
  /\ tracker = NewTimedTracker
  /\ now = 0
  /\ ticks = 0
  /\ ptLast = NoCall
  /\ lastRenderAt = ZeroTime

ExecutorIdle ==
  /\ xEntry = "none"
  /\ xNode = << >>
  /\ xCalls = << >>
  /\ spinners = << >>

MatcherIdle ==
  /\ qPath = EmptyStr
  /\ qPattern = EmptyStr
  /\ qStage = "none"
  /\ qRes = FALSE

\* a recursive command on some tree, under some configuration
Init ==
  /\ rootPath \in RootInputs
  /\ tree \in TreeInputs
  /\ opKind \in OpInputs
  /\ \E c \in WalkConfigs :
       /\ skipListCfg = c.skipList
       /\ useDefaultSkips = c.useDefaults
  /\ lost \in LostInputs(tree)
  /\ WalkerIdle
  /\ MatcherIdle
  /\ ExecutorIdle
  /\ TrackerIdle

Next ==
  \/ WalkStart
  \/ VisitNode
  \/ OperationReturn
  \/ AfterWalk
  \/ WalkAgain
  \/ CtxBecomesDone

Spec == Init /\ [][Next]_vars

\* matchesSkipPattern applied to the query
MatchPattern ==
  /\ qStage = "input"
  /\ \E pattern \in PatternInputs :
       /\ qPattern' = pattern
       /\ qRes' = matchesSkipPattern(qPath, pattern)
  /\ qStage' = "matched"
  /\ UNCHANGED <<qPath, cvars, wvars, evars, tvars>>

\* shouldSkipPath applied to the query
SkipPath ==
  /\ qStage = "input"
  /\ qRes' = shouldSkipPath(qPath)
  /\ qStage' = "skipchecked"
  /\ UNCHANGED <<qPath, qPattern, cvars, wvars, evars, tvars>>

MatchInit ==
  /\ qPath \in PathInputs
  /\ qPattern = EmptyStr
  /\ qStage = "input"
  /\ qRes = FALSE
  /\ skipListCfg \in SeqsUpTo(ConfigEntries, MaxListLen)
  /\ useDefaultSkips \in BOOLEAN
  /\ rootPath = RootDir
  /\ tree = {}
  /\ opKind = "status"
  /\ lost = {}
  /\ WalkerIdle
  /\ ExecutorIdle
  /\ TrackerIdle

MatchNext == MatchPattern \/ SkipPath

MatchSpec == MatchInit /\ [][MatchNext]_vars

\* a result left in the buffer by an earlier invocation
StaleOutput == [path |-> RootDir, output |-> "out", error |-> Nil]

\* the Executor looks at the path it is given and at its .git entry only:
\* one group of entries is enough around it
ExecTreeInputs == {{}} \cup TreeParts

\* the Executor called on a path of some tree, in either mode
ExecInit ==
  /\ rootPath = RootDir
  /\ tree \in ExecTreeInputs
  /\ xEntry \in EntryPoints
  /\ opKind \in OpsOf(xEntry)
  /\ skipListCfg = << >>
  /\ useDefaultSkips = TRUE
  /\ xNode \in Nodes
  /\ xCalls = << >>
  /\ spinners = << >>
  /\ ctxErr = Nil
  /\ pc = "exec"
  /\ todo = << >>
  /\ inflight = [node |-> << >>, isGit |-> FALSE]
  /\ inProgressMode \in BOOLEAN
  /\ gitOutputBuffer \in {<< >>, <<StaleOutput>>}
  /\ totalDirs = 0
  /\ skipCount = 0
  /\ dirCount = 0
  /\ gitRepoCount = 0
  /\ progress = NewProgressTracker
  /\ walkErr = Nil
  /\ ret = Nil
  /\ log = << >>
  /\ summaries = << >>
  /\ cursorHidden = FALSE
  /\ lost = {}
  /\ MatcherIdle
  /\ TrackerIdle

SpinnerStep == \E i \in 1..MaxCalls : SpinnerTick(i) \/ SpinnerExit(i)

ExecNext == ExecuteCall \/ ExecuteReturn \/ CtxBecomesDone

ExecSpec == ExecInit /\ [][ExecNext]_vars

\* the entry points together with the spinner tasks they start
SpinNext == ExecNext \/ SpinnerStep

\* a spinner task depends on the operation, on progress mode and on whether
\* the path is a repository: the walk root with or without its marker
SpinTreeInputs == {{}, {<<DirName>>}}

SpinInit ==
  /\ ExecInit
  /\ tree \in SpinTreeInputs
  /\ gitOutputBuffer = << >>

\* the scheduler runs a spinner task whose done channel is closed
ExecFairSpec ==
  /\ SpinInit
  /\ [][SpinNext]_vars
  /\ \A i \in 1..MaxCalls : WF_vars(SpinnerExit(i))


(***************************************************************************)
(* Vocabulary of the properties                                            *)
(***************************************************************************)
Happened(e, path) == \E i \in DOMAIN log : log[i] = Ev(e, path)

Count(e, path) == Cardinality({i \in DOMAIN log : log[i] = Ev(e, path)})

DirNodes == {n \in Nodes : IsDirNode(n)}

\* k occupies a whole segment of cp: it has no separator and is delimited by
\* separators or the ends of cp
IsFullSegment(k, cp) ==
  /\ k # EmptyStr
  /\ \A i \in 1..Len(k) : k[i] # Sep
  /\ \E i \in 1..(Len(cp) - Len(k) + 1) :
       /\ SubSeq(cp, i, i + Len(k) - 1) = k
       /\ (i = 1 \/ cp[i - 1] = Sep)
       /\ (i + Len(k) - 1 = Len(cp) \/ cp[i + Len(k)] = Sep)

\* k is what follows the last separator of cp (the root is its own basename)
IsBasename(k, cp) ==
  \/ (cp = SepStr /\ k = SepStr)
  \/ /\ k # EmptyStr
     /\ \A i \in 1..Len(k) : k[i] # Sep
     /\ Len(k) <= Len(cp)
     /\ SubSeq(cp, Len(cp) - Len(k) + 1, Len(cp)) = k
     /\ (Len(k) = Len(cp) \/ cp[Len(cp) - Len(k)] = Sep)

\* exact-segment semantics of a pattern
SegmentMatch(path, k) ==
  LET cp == Clean(path)
  IN IsFullSegment(k, cp) \/ k = cp \/ IsBasename(k, cp)

\* k occurs in a segment of the cleaned path without being that segment
ProperSubstringOnly(path, k) ==
  LET cp == Clean(path)
  IN /\ IsSubstring(k, cp)
     /\ ~IsFullSegment(k, cp)
     /\ k # cp

ExactSkip(path) == \E k \in getSkipList : SegmentMatch(path, k)

\* per entry: its path and whether a skip pattern matches it exactly
Facts ==
  [n \in Nodes |-> LET p == PathOf(n) IN [path |-> p, skip |-> ExactSkip(p)]]

HasMarker(n) == Append(n, DirName) \in tree

IsMarker(n) ==
  \/ (n # << >> /\ n[Len(n)] = DirName)
  \/ (n = << >> /\ Base(rootPath) = DirName)

\* m lies strictly inside the subtree of n
Below(m, n) == Len(m) > Len(n) /\ SubSeq(m, 1, Len(n)) = n

\* the walk stops descending at n
PrunedAt(F, n) == IsMarker(n) \/ F[n].skip \/ HasMarker(n) \/ n \in lost

\* the walk arrives at n: no directory above it is pruned
Reached(F, n) == \A k \in 0..(Len(n) - 1) : ~PrunedAt(F, SubSeq(n, 1, k))

\* a directory the operation is due on
OperationDue(F, n) ==
  /\ n \in DirNodes
  /\ Reached(F, n)
  /\ n \notin lost
  /\ ~IsMarker(n)
  /\ ~F[n].skip

\* a repository root that is reached and not excluded
ReachedRepo(F, n) == OperationDue(F, n) /\ HasMarker(n)

WorkEvents == {"p2visit", "dircount", "update", "skipmsg", "op", "run"}

WorkDone(l) == Cardinality({i \in DOMAIN l : l[i].ev \in WorkEvents})

EventSeen(e) == \E i \in DOMAIN log : log[i].ev = e


(***************************************************************************)
(* Properties                                                              *)
(***************************************************************************)
ScenarioB ==
  { <<Vendor>>, <<Vendor, Lib>>, <<Vendor, Lib, DirName>>,
    <<VendorTools>>, <<VendorTools, App>>, <<VendorTools, App, DirName>> }

\* C1: in both passes, nothing strictly inside the subtree of a directory
\* detected as a repository root is counted, operated on or reported to the
\* tracker, and no directory named .git, nor anything beneath it, is counted,
\* descended into or operated on.
C1_RepositoryInternalsUntouched ==
  LET F == Facts IN
  \A q \in DirNodes :
    LET qp == F[q].path IN
    /\ (IsRepository(qp) /\ (Happened("p1visit", qp) \/ Happened("p2visit", qp)))
         => \A n \in Nodes :
              Below(n, q)
                => /\ ~Happened("op", F[n].path)
                   /\ ~Happened("update", F[n].path)
                   /\ ~Happened("p1count", F[n].path)
    /\ IsMarker(q)
         => /\ ~Happened("p1count", qp)
            /\ ~Happened("dircount", qp)
            /\ ~Happened("update", qp)
            /\ ~Happened("op", qp)
            /\ \A n \in Nodes :
                 Below(n, q)
                   => /\ ~Happened("p1visit", F[n].path)
                      /\ ~Happened("p2visit", F[n].path)
                      /\ ~Happened("op", F[n].path)

\* C2: in a traversal driving executeGitCommand without cancellation the
\* command runner is invoked exactly once for each repository root that is
\* reached and not excluded, never for another path and never a second time
\* after a failure.
C2_RunnerOncePerRepository ==
  opKind # "callback" =>
    LET F == Facts IN
    \A n \in Nodes :
      /\ Count("run", F[n].path) <= (IF ReachedRepo(F, n) THEN 1 ELSE 0)
      /\ (pc = "returned" /\ ctxErr = Nil /\ ReachedRepo(F, n))
           => Count("run", F[n].path) = 1

C2_Witness ==
  /\ pc = "returned"
  /\ ctxErr = Nil
  /\ opKind = "pull"
  /\ \E n \in Nodes : Happened("runerr", PathOf(n)) /\ Count("run", PathOf(n)) = 1
  /\ \E n \in Nodes : HasMarker(n) /\ ~ReachedRepo(Facts, n)

\* C3: matchesSkipPattern(P, K) with K non-empty holds exactly when K is a
\* full segment of the cleaned path, the whole cleaned path or its basename,
\* so never for a K that is only part of a segment; shouldSkipPath(P) holds
\* exactly when some pattern of the skip list matches P in this sense.
C3_ExactSegmentMatching ==
  /\ (qStage = "matched" /\ qPattern # EmptyStr)
       => /\ qRes = SegmentMatch(qPath, qPattern)
          /\ ProperSubstringOnly(qPath, qPattern) => ~qRes
  /\ qStage = "skipchecked"
       => qRes = (\E k \in getSkipList : SegmentMatch(qPath, k))

C3_Witness ==
  /\ qStage = "matched"
  /\ qPattern = Vendor
  /\ qPath = Slash(VendorTools, <<"p", "k", "g">>)
  /\ ~qRes

\* C4 as stated: every directory the pass 2 callback works on is pruned by
\* the skip rules (message, no operation, nothing visited beneath) exactly
\* when it matches a skip pattern under exact-segment semantics.
SkipPruned(F, n) ==
  /\ Happened("skipmsg", F[n].path)
  /\ ~Happened("op", F[n].path)
  /\ \A m \in Nodes : Below(m, n) => ~Happened("p2visit", F[m].path)

C4_SkipPrunedIffMatch ==
  LET F == Facts IN
  \A n \in DirNodes :
    Happened("p2visit", F[n].path) => (SkipPruned(F, n) <=> F[n].skip)

\* C4 amended: every directory not named .git that the pass 2 callback works
\* on is pruned by the skip rules exactly when it matches a skip pattern under
\* exact-segment semantics; with skip list ["vendor"], under a root that is
\* not itself a repository, the repository at <root>/vendor/lib is never
\* operated on and the one at <root>/vendor-tools/app is, once a walk that
\* was neither cancelled nor refused an entry by the file system returns.
C4_SkipPrunedIffMatchUnlessMarker ==
  LET F == Facts IN
  /\ \A n \in DirNodes :
       (Happened("p2visit", F[n].path) /\ ~IsMarker(n))
         => (SkipPruned(F, n) <=> F[n].skip)
  /\ (rootPath = RootDir /\ ~HasMarker(<< >>) /\ getSkipList = {Vendor}
        /\ ScenarioB \subseteq tree)
       => /\ ~Happened("op", F[<<Vendor, Lib>>].path)
          /\ (pc = "returned" /\ ctxErr = Nil /\ ~EventSeen("cbcanceled")
                /\ lost = {})
               => Happened("op", F[<<VendorTools, App>>].path)

C4_Witness ==
  /\ pc = "returned"
  /\ rootPath = RootDir
  /\ getSkipList = {Vendor}
  /\ tree = ScenarioB
  /\ opKind = "status"
  /\ Happened("skipmsg", PathOf(<<Vendor>>))
  /\ ~Happened("p2visit", PathOf(<<Vendor, Lib>>))
  /\ Happened("run", PathOf(<<VendorTools, App>>))

\* C5: the empty pattern matches no path, absolute paths whose split has an
\* empty segment included, and the empty or whitespace-only entries of the
\* configured list have no influence on shouldSkipPath.
IsBlank(s) == TrimSpace(s) = EmptyStr

WithoutBlank(cfg) == SelectSeq(cfg, LAMBDA s : ~IsBlank(s))

C5_EmptyPatternNeverMatches ==
  /\ (qStage = "matched" /\ qPattern = EmptyStr) => ~qRes
  /\ qStage = "skipchecked"
       => /\ qRes = ShouldSkipWith(qPath,
                      GetSkipListOf(WithoutBlank(skipListCfg), useDefaultSkips))
          /\ qRes => \E e \in Range(skipListCfg) \cup
                               (IF useDefaultSkips THEN Range(defaultSkips) ELSE {}) :
                       ~IsBlank(e) /\ SegmentMatch(qPath, TrimSpace(e))

C5_Witness ==
  /\ qStage = "matched"
  /\ qPattern = EmptyStr
  /\ qPath = <<"/", "a">>
  /\ Contains(Split(Clean(qPath), Sep), EmptyStr)
  /\ ~qRes

\* C6: a repository whose command fails, without the context being done when
\* runCommand checks it, gets exactly one error event, no success event and
\* no entry in the output buffer.
C6_OneErrorEventPerFailure ==
  \A p \in {log[i].path : i \in DOMAIN log} :
    (Happened("runerr", p) /\ ~Happened("ctxret", p))
      => /\ Count("logerror", p) = 1
         /\ Count("logsuccess", p) = 0
         /\ \A i \in DOMAIN gitOutputBuffer : gitOutputBuffer[i].path # p

C6_Witness ==
  /\ pc = "returned"
  /\ opKind = "status"
  /\ \E n \in Nodes : Happened("runerr", PathOf(n)) /\ Count("logerror", PathOf(n)) = 1
  /\ EventSeen("logsuccess")

\* C7: when no operation ends in cancellation (the context is never done and
\* no callback returns the cancellation error), failures of commands and
\* other callback errors leave the walk complete: every directory the
\* operation is due on gets it, and walkDirectories returns nil.
C7_FailuresDoNotStopTheWalk ==
  (pc = "returned" /\ ctxErr = Nil /\ ~EventSeen("cbcanceled"))
    => /\ ret = Nil
       /\ LET F == Facts IN
          \A n \in DirNodes : OperationDue(F, n) <=> Happened("op", F[n].path)

C7_Witness ==
  /\ pc = "returned"
  /\ ctxErr = Nil
  /\ ret = Nil
  /\ \E i \in DOMAIN log :
       /\ log[i].ev \in {"cberr", "runerr"}
       /\ \E j \in DOMAIN log : j > i /\ log[j].ev = "op"

\* C8: each operated-on repository produces exactly one completion event in
\* a traversal, a success or an error, the flush included, and at most one
\* buffered result.
C8_OneCompletionEvent ==
  (pc = "returned" /\ ctxErr = Nil /\ opKind # "callback")
    => \A p \in {log[i].path : i \in DOMAIN log} :
         Count("run", p) = 1
           => /\ Count("logsuccess", p) + Count("logerror", p) = 1
              /\ Cardinality({i \in DOMAIN gitOutputBuffer :
                                gitOutputBuffer[i].path = p}) <= 1

\* C9: a pass 2 visit that begins with the context done does nothing for its
\* node: no count, progress update, skip message or operation; the walk ends
\* there with the context's error, which walkDirectories returns without
\* visiting anything more.
C9_CancellationCheckedFirst ==
  [][ /\ (pc = "pass2" /\ ctxErr # Nil)
         => /\ pc' = "afterwalk"
            /\ walkErr' = ctxErr
            /\ log' = log
            /\ <<dirCount, skipCount, gitRepoCount, progress>>' =
                 <<dirCount, skipCount, gitRepoCount, progress>>
      /\ pc = "afterwalk"
         => /\ pc' = "returned"
            /\ ret' = walkErr
            /\ WorkDone(log') = WorkDone(log)
            /\ <<dirCount, skipCount, gitRepoCount>>' =
                 <<dirCount, skipCount, gitRepoCount>> ]_vars

C9_Witness ==
  /\ pc = "afterwalk"
  /\ ctxErr # Nil
  /\ walkErr = ctxErr
  /\ log[Len(log)].ev = "ctxdone"
  /\ EventSeen("op")
  /\ \E n \in DirNodes : OperationDue(Facts, n) /\ ~Happened("p2visit", PathOf(n))

\* C10: whenever the context becomes done during pass 2, walkDirectories
\* returns the context's error.
CtxDoneDuringPass2 ==
  \E i \in DOMAIN log :
    /\ log[i].ev = "ctxdone"
    /\ \E j \in DOMAIN log : j < i /\ log[j].ev = "start"

C10_CancellationAlwaysPropagates ==
  (pc = "returned" /\ CtxDoneDuringPass2) => (ret # Nil /\ ret = ctxErr)

\* C11: ExecuteCommandSingle on a path that is not a repository returns an
\* error whose text contains "is not a git repository", the runner is not
\* invoked and no success, error or skipped event is emitted; every call on
\* the unchanged directory returns the identical error.
C11_SingleNotRepository ==
  (xEntry = "ExecuteCommandSingle" /\ ~IsRepository(PathOf(xNode)))
    => /\ \A i \in DOMAIN xCalls :
            /\ xCalls[i].err = NotRepo
            /\ IsSubstring(Tail(NotRepoText), xCalls[i].msg)
            /\ \A j \in DOMAIN xCalls :
                 /\ xCalls[j].err = xCalls[i].err
                 /\ xCalls[j].msg = xCalls[i].msg
       /\ \A e \in {"run", "logsuccess", "logerror", "logskipped"} : ~EventSeen(e)

C11_Witness ==
  /\ xEntry = "ExecuteCommandSingle"
  /\ xNode = <<App>>
  /\ ~IsRepository(PathOf(xNode))
  /\ Len(xCalls) = 2
  /\ xCalls[1].err = NotRepo
  /\ xCalls[2].msg = Errorf(PathOf(xNode))

\* C12: ExecuteCommand on a path that is not a repository returns nil at
\* once: the step invokes no runner, emits no event, starts no spinner and
\* leaves the output buffer as it was.
C12_RecursiveNotRepository ==
  [][ (pc = "exec" /\ xEntry = "ExecuteCommand" /\ ~IsRepository(PathOf(xNode))
         /\ xCalls' # xCalls)
        => /\ xCalls'[Len(xCalls')].err = Nil
           /\ pc' = "exec"
           /\ log' = log
           /\ gitOutputBuffer' = gitOutputBuffer ]_vars

C12_Witness ==
  /\ xEntry = "ExecuteCommand"
  /\ ~IsRepository(PathOf(xNode))
  /\ opKind = "pull"
  /\ ~inProgressMode
  /\ gitOutputBuffer = <<StaleOutput>>
  /\ Len(xCalls) = 2
  /\ xCalls[2].err = Nil
  /\ ~EventSeen("run")
  /\ ~EventSeen("spinner")

\* C13: in every state of pass 2 after a node visit and at the end of the
\* traversal, dirCount = gitRepoCount + skipCount + the number of
\* non-repository directories the operation was invoked on, and
\* gitRepoCount <= dirCount.
NonRepoOperations ==
  LET F == Facts
      repoPaths == {F[n].path : n \in {m \in Nodes : HasMarker(m)}}
  IN Cardinality({i \in DOMAIN log :
                    log[i].ev = "op" /\ log[i].path \notin repoPaths})

C13_CounterIdentity ==
  pc \in {"pass2", "running", "afterwalk", "returned"}
    => /\ dirCount = gitRepoCount + skipCount + NonRepoOperations
       /\ gitRepoCount <= dirCount

\* C14: without cancellation the total of pass 1 equals the number of
\* progress.Update calls of pass 2: the tracker's current count equals its
\* total when Finish is called, and never exceeds it during the walk.
UpdateCalls == Cardinality({i \in DOMAIN log : log[i].ev = "update"})

C14_TotalMatchesUpdates ==
  /\ pc \in {"pass2", "running", "afterwalk", "returned"}
       => /\ progress.total = totalDirs
          /\ progress.current = UpdateCalls
          /\ progress.current <= progress.total
  /\ (pc \in {"afterwalk", "returned"} /\ ctxErr = Nil /\ ~EventSeen("cbcanceled"))
       => /\ UpdateCalls = totalDirs
          /\ progress.current = progress.total

\* C15: the operation is invoked exactly once on every directory that pass 2
\* visits, the root included, unless the directory is named .git or is
\* excluded by a skip rule, on repository roots and on other directories
\* alike; it is never invoked on those, twice on one directory, or on a
\* directory inside a repository.
InsideRepository(n) == \E k \in 0..(Len(n) - 1) : HasMarker(SubSeq(n, 1, k))

RepoOperations ==
  LET F == Facts
      repoPaths == {F[n].path : n \in {m \in Nodes : HasMarker(m)}}
  IN Cardinality({i \in DOMAIN log :
                    log[i].ev = "op" /\ log[i].path \in repoPaths})

C16_OneSummaryLine ==
  /\ pc \in {"idle", "pass2", "running", "afterwalk"} => summaries = << >>
  /\ pc = "returned"
       => /\ Len(summaries) = 1
          /\ Count("summary", rootPath) = 1
          /\ ~summaries[1].found <=> gitRepoCount = 0
          /\ gitRepoCount = RepoOperations
          /\ summaries[1].mentionsSkipped <=> skipCount > 0
          /\ summaries[1].mentionsSkipped => summaries[1].skipped = skipCount

C16_Witness ==
  /\ pc = "returned"
  /\ ret = Canceled
  /\ Len(summaries) = 1
  /\ summaries[1].found
  /\ ~summaries[1].mentionsSkipped
  /\ \E n \in DirNodes : OperationDue(Facts, n) /\ ~Happened("p2visit", PathOf(n))

\* C17: in a call of walkDirectories the tracker is started exactly once
\* before any Update, finished exactly once after the last Update on every
\* exit path, cancellation included; no Update or ShowMessage follows Finish,
\* and the cursor hidden by Start is shown again once walkDirectories has
\* returned.
EventCount(e) == Cardinality({i \in DOMAIN log : log[i].ev = e})

TrackerCalls == {"update", "skipmsg"}

C17_TrackerLifecycle ==
  /\ \A i \in DOMAIN log :
       log[i].ev \in TrackerCalls
         => /\ \E j \in 1..(i - 1) : log[j].ev = "start"
            /\ \A j \in 1..(i - 1) : log[j].ev # "finish"
  /\ \A i \in DOMAIN log :
       log[i].ev = "finish" => \E j \in 1..(i - 1) : log[j].ev = "start"
  /\ pc = "idle"
       => /\ EventCount("start") = 0
          /\ EventCount("finish") = 0
          /\ ~progress.started
          /\ ~cursorHidden
  /\ pc \in {"pass2", "running", "afterwalk"}
       => /\ EventCount("start") = 1
          /\ EventCount("finish") = 0
          /\ progress.started /\ ~progress.finished
          /\ cursorHidden
  /\ pc = "returned"
       => /\ EventCount("start") = 1
          /\ EventCount("finish") = 1
          /\ progress.started /\ progress.finished
          /\ ~cursorHidden

C17_Witness ==
  /\ pc = "returned"
  /\ ret = DeadlineExceeded
  /\ EventSeen("update")
  /\ EventSeen("skipmsg")
  /\ EventCount("finish") = 1
  /\ ~cursorHidden

\* C18: a status invocation that succeeds with output either appends the
\* output to the buffer without printing it (progress mode) or prints it
\* without appending it (otherwise), never both and never neither; an
\* operation other than status never appends to the buffer.
C18_BufferedOrPrinted ==
  [][ (pc = "execrunning" /\ pc' = "exec")
        => LET c == xCalls'[Len(xCalls')]
               path == PathOf(xNode)
               emitted == {log'[k] : k \in (Len(log) + 1)..Len(log')}
               printed == Ev("print", path) \in emitted
               appended ==
                 gitOutputBuffer' =
                   Append(gitOutputBuffer,
                          [path |-> path, output |-> "out", error |-> Nil])
           IN /\ (opKind = "status" /\ c.outcome = "out" /\ c.err = Nil)
                   => /\ appended # printed
                      /\ appended <=> inProgressMode
              /\ ~appended => gitOutputBuffer' = gitOutputBuffer
              /\ opKind # "status" => (~appended /\ ~printed) ]_vars

C18_Witness ==
  /\ pc = "exec"
  /\ opKind = "status"
  /\ ~inProgressMode
  /\ gitOutputBuffer = <<StaleOutput>>
  /\ Len(xCalls) = 1
  /\ xCalls[1].outcome = "out"
  /\ xCalls[1].err = Nil
  /\ Happened("print", PathOf(xNode))

\* C19: captured output is shown only after Finish, and once walkDirectories
\* has returned the events between Finish and the summary are the flush of
\* the results in the order the Executor appended them: one error report for
\* an entry with an error, and for any other entry its output followed at
\* once by one success report for the same path.
FinishIndex == CHOOSE i \in DOMAIN log : log[i].ev = "finish"

Appended == SelectSeq(SubSeq(log, 1, FinishIndex - 1), LAMBDA e : e.ev = "append")

Flushed == SubSeq(log, FinishIndex + 1, Len(log) - 1)

C19_FlushInArrivalOrder ==
  /\ \A i \in DOMAIN log :
       log[i].ev = "print" => \E j \in 1..(i - 1) : log[j].ev = "finish"
  /\ pc = "returned"
       => /\ log[Len(log)].ev = "summary"
          /\ Len(gitOutputBuffer) = Len(Appended)
          /\ \A k \in DOMAIN Appended : gitOutputBuffer[k].path = Appended[k].path
          /\ LET errs == {k \in DOMAIN gitOutputBuffer : gitOutputBuffer[k].error # Nil}
                 oks == DOMAIN gitOutputBuffer \ errs
             IN /\ Len(Flushed) = Cardinality(errs) + 2 * Cardinality(oks)
                /\ \A p \in {gitOutputBuffer[k].path : k \in DOMAIN gitOutputBuffer} :
                     /\ Cardinality({i \in DOMAIN Flushed : Flushed[i] = Ev("logerror", p)})
                          = Cardinality({k \in errs : gitOutputBuffer[k].path = p})
                     /\ Cardinality({i \in DOMAIN Flushed : Flushed[i] = Ev("print", p)})
                          = Cardinality({k \in oks : gitOutputBuffer[k].path = p})
                /\ errs = {}
                     => \A k \in DOMAIN Appended :
                          /\ Flushed[2 * k - 1] = Ev("print", Appended[k].path)
                          /\ Flushed[2 * k] = Ev("logsuccess", Appended[k].path)

C19_Witness ==
  /\ pc = "returned"
  /\ opKind = "status"
  /\ Len(gitOutputBuffer) = 2
  /\ gitOutputBuffer[1].path # gitOutputBuffer[2].path
  /\ Len(Flushed) = 4
  /\ Flushed[1] = Ev("print", gitOutputBuffer[1].path)
  /\ Flushed[4] = Ev("logsuccess", gitOutputBuffer[2].path)

\* C20: the flush consumes and clears the output buffer: the buffer is empty
\* when walkDirectories has returned, and during a traversal and in its
\* flush the buffer holds only results recorded in that traversal, never one
\* of an earlier traversal.
AppendEvents == SelectSeq(log, LAMBDA e : e.ev = "append")

C20_BufferClearedByFlush ==
  /\ pc = "returned" => gitOutputBuffer = << >>
  /\ pc \in {"pass2", "running", "afterwalk", "returned"}
       => /\ Len(gitOutputBuffer) = Len(AppendEvents)
          /\ \A k \in DOMAIN gitOutputBuffer :
               gitOutputBuffer[k].path = AppendEvents[k].path
  /\ pc = "returned"
       => \A i \in DOMAIN Flushed :
            \E k \in DOMAIN AppendEvents : AppendEvents[k].path = Flushed[i].path

\* C21: a spinner task is started only for an operation other than status
\* called with progress mode off, so none runs in progress mode; its done
\* channel is closed exactly once, before runCommand returns, whatever the
\* outcome of the command; once done is closed the task terminates, and a
\* terminated task writes nothing.
SpinnerTasks == 1..MaxCalls

C21_SpinnerStates ==
  /\ spinners # << >> => (opKind # "status" /\ ~inProgressMode)
  /\ inProgressMode => \A i \in DOMAIN spinners : spinners[i].state # "ticking"
  /\ \A i \in DOMAIN spinners :
       /\ spinners[i].closes <= 1
       /\ spinners[i].closes = 0 => (pc = "execrunning" /\ i = Len(spinners))
       /\ spinners[i].state = "stopped" => spinners[i].closes = 1

C21_SpinnerSteps ==
  \A i \in DOMAIN spinners :
    /\ spinners[i].state = "stopped" => spinners'[i] = spinners[i]
    /\ (pc = "execrunning" /\ pc' = "exec" /\ spinners[i].closes = 0)
         => spinners'[i].closes = 1

C21_SpinnerLifecycle ==
  /\ []C21_SpinnerStates
  /\ [][C21_SpinnerSteps]_vars
  /\ \A i \in SpinnerTasks :
       (i \in DOMAIN spinners /\ spinners[i].closes = 1)
         ~> (i \in DOMAIN spinners /\ spinners[i].state = "stopped")

C21_Witness ==
  /\ pc = "exec"
  /\ opKind = "pull"
  /\ ctxErr # Nil
  /\ Len(xCalls) = 2
  /\ xCalls[1].outcome = "fail"
  /\ xCalls[2].outcome = "out"
  /\ Len(spinners) = 2
  /\ spinners[1].state = "stopped"
  /\ spinners[1].frames = 1
  /\ spinners[2].closes = 1

\* C22: ExecuteCommand or ExecuteCommandSingle called on a repository with
\* the context already done does not invoke the command runner: the call
\* returns the context's error in that step and emits no event, neither a
\* success nor an error report.
C22_ContextCheckedBeforeCommand ==
  [][ (pc = "exec" /\ ctxErr # Nil /\ IsRepository(PathOf(xNode))
         /\ xCalls' # xCalls)
        => /\ log' = log
           /\ pc' = "exec"
           /\ xCalls'[Len(xCalls')].err = ctxErr ]_vars

\* C23: for an entry whose visit in pass 2 the file walk reports with an
\* error, the walker reports at most one traversal-level error and, once the
\* walk has come to it, exactly one; the entry is never counted, reported to
\* the tracker or operated on, and nothing beneath it is visited; the walk
\* goes on with the remaining entries, and the error is not what
\* walkDirectories returns.
C23_WalkErrorsAreReportedAndSkipped ==
  LET F == Facts IN
  /\ \A n \in lost :
       /\ Count("walkerr", F[n].path) <= 1
       /\ \A e \in {"p2visit", "dircount", "update", "skipmsg", "op", "run"} :
            ~Happened(e, F[n].path)
       /\ \A m \in Nodes :
            Below(m, n)
              => \A e \in {"p2visit", "walkerr", "op"} : ~Happened(e, F[m].path)
  /\ \A p \in {log[i].path : i \in DOMAIN log} :
       Happened("walkerr", p) => \E n \in lost : F[n].path = p
  /\ ret \in {Nil, Canceled, DeadlineExceeded}
  /\ (pc = "returned" /\ ctxErr = Nil /\ ~EventSeen("cbcanceled"))
       => /\ ret = Nil
          /\ \A n \in lost : Reached(F, n) => Count("walkerr", F[n].path) = 1
          /\ \A n \in DirNodes : OperationDue(F, n) => Happened("op", F[n].path)

C23_Witness ==
  /\ pc = "returned"
  /\ ret = Nil
  /\ lost = {<<Lib>>}
  /\ HasMarker(<<Lib>>)
  /\ Count("walkerr", PathOf(<<Lib>>)) = 1
  /\ Happened("op", PathOf(<<VendorTools, App>>))


(***************************************************************************)
(* cmd ProgressTracker: the timed display                                  *)
(***************************************************************************)
MaxCurrent == 2
MaxTicks == 2

\* the unit of the clock
Millisecond == 1
Second == 1000 * Millisecond
Minute == 60 * Second
Hour == 60 * Minute

\* NewProgressTracker: updateInterval and etaUpdateInterval
updateInterval == 50 * Millisecond
etaUpdateInterval == 1 * Second

\* the directory counts pass 1 hands to SetTotal
TotalInputs == {0, 1, 2}

Delays == {Millisecond, updateInterval, etaUpdateInterval}

\* time.Since(t) >= d, and clock.Sub(t) >= d: from the zero time every
\* interval of the program has passed
ElapsedAtLeast(clock, t, d) == t = ZeroTime \/ clock - t >= d

ETA(fmt, a, b) == [fmt |-> fmt, a |-> a, b |-> b, beyond |-> FALSE]

\* the three formats of calculateETA, on a duration in milliseconds
FormatETA(ms) ==
  IF ms < Minute THEN ETA("%ds", ms \div Second, 0)
  ELSE IF ms < Hour THEN ETA("%dm%ds", ms \div Minute, (ms \div Second) % 60)
  ELSE ETA("%dh%dm", ms \div Hour, (ms \div Minute) % 60)

\* calculateETA on a tracker that was never started: time.Since saturates at
\* the largest Duration, the estimate is centuries long, and where it leaves
\* the range of Duration the conversion yields what the platform makes of it
ETAFromZeroStart(t) ==
  LET centuries == [fmt |-> "%dh%dm", a |-> 0, b |-> 0, beyond |-> TRUE]
      negative == [fmt |-> "%ds", a |-> 0, b |-> 0, beyond |-> TRUE]
  IN IF t.total - t.current < t.current THEN {centuries}
     ELSE {centuries, negative}

\* calculateETA: the strings it can return
calculateETA(t, clock) ==
  IF t.current = 0 \/ t.total = 0 THEN {Calculating}
  ELSE IF t.startTime = ZeroTime
    THEN IF t.total - t.current <= 0 THEN {ETA("%ds", 0, 0)}
         ELSE ETAFromZeroStart(t)
  ELSE LET elapsed == clock - t.startTime
           remaining == t.total - t.current
       IN IF elapsed < Second THEN {Calculating}
          ELSE IF remaining <= 0 THEN {ETA("%ds", 0, 0)}
          ELSE {FormatETA((remaining * elapsed) \div t.current)}

\* %3.0f of 100 * x / y: rounded to the nearest integer, halves to even
RoundedPercent(x, y) ==
  LET q == (100 * x) \div y
      r == (100 * x) % y
  IN IF 2 * r < y THEN q
     ELSE IF 2 * r > y THEN q + 1
     ELSE IF q % 2 = 0 THEN q ELSE q + 1

\* a render that does not clamp
percentUnclamped(current, total) == RoundedPercent(current, total)

\* render: percent is clamped to 1.0
percentShown(current, total) ==
  IF current > total THEN 100 ELSE RoundedPercent(current, total)

\* a render that asks calculateETA every time
etaAlwaysDue(t, clock) == TRUE

\* render: the cached ETA is etaUpdateInterval old
etaDue(t, clock) == ElapsedAtLeast(clock, t.lastETAUpdate, etaUpdateInterval)

\* render at time clock, with eta what calculateETA returns if it is asked
render(t, clock, eta) ==
  IF t.total = 0 THEN [pt |-> t, writes |-> << >>]
  ELSE LET t1 == IF etaDue(t, clock)
                 THEN [t EXCEPT !.cachedETA = eta, !.lastETAUpdate = clock]
                 ELSE t
       IN [pt |-> t1,
           writes |-> << [w |-> "bar",
                          pct |-> percentShown(t1.current, t1.total),
                          current |-> t1.current,
                          total |-> t1.total,
                          repos |-> t1.gitRepoCount,
                          eta |-> t1.cachedETA] >>]

Wrote(what) == [w |-> what]

HasBar(writes) == \E i \in 1..Len(writes) : writes[i].w = "bar"

\* the call call(isGitRepo) has run to its end, leaving r.pt and having
\* written r.writes
Called(call, isGitRepo, r) ==
  /\ tracker' = r.pt
  /\ ptLast' = [call |-> call, isGitRepo |-> isGitRepo, writes |-> r.writes]
  /\ lastRenderAt' = IF HasBar(r.writes) THEN now ELSE lastRenderAt
  /\ UNCHANGED <<now, ticks>>
  /\ UNCHANGED <<cvars, mvars, wvars, evars>>

PtSetTotal ==
  \E total \in TotalInputs :
    Called("SetTotal", FALSE, [pt |-> [tracker EXCEPT !.total = total],
                               writes |-> << >>])

PtStart ==
  LET t == [tracker EXCEPT !.startTime = now, !.lastUpdate = now,
                      !.lastETAUpdate = now, !.started = TRUE]
  IN \E eta \in calculateETA(t, now) :
       LET r == render(t, now, eta) IN
       Called("Start", FALSE,
              IF showProgress
              THEN [pt |-> r.pt, writes |-> <<Wrote("hidecursor")>> \o r.writes]
              ELSE [pt |-> t, writes |-> << >>])

\* Update: enough time has passed since lastUpdate
updateDue(t, clock) == ElapsedAtLeast(clock, t.lastUpdate, updateInterval)

PtUpdate ==
  /\ tracker.current < MaxCurrent
  /\ \E isGitRepo \in BOOLEAN :
       LET t == TrackerUpdate(tracker, RootDir, isGitRepo) IN
       IF updateDue(t, now)
       THEN LET t1 == [t EXCEPT !.lastUpdate = now] IN
            \E eta \in calculateETA(t1, now) :
              Called("Update", isGitRepo,
                     IF showProgress THEN render(t1, now, eta)
                     ELSE [pt |-> t1, writes |-> << >>])
       ELSE Called("Update", isGitRepo, [pt |-> t, writes |-> << >>])

\* a ShowMessage that leaves the message as the last line
messageOnly(r) == [pt |-> r.pt, writes |-> << >>]

\* ShowMessage: the progress line is drawn again below the message
redrawProgress(r) == r

PtShowMessage ==
  \E eta \in calculateETA(tracker, now) :
    LET r == redrawProgress(render(tracker, now, eta)) IN
    Called("ShowMessage", FALSE,
           IF showProgress
           THEN [pt |-> r.pt,
                 writes |-> <<Wrote("clear"), Wrote("message"),
                              Wrote("newline")>> \o r.writes]
           ELSE [pt |-> tracker, writes |-> <<Wrote("message"), Wrote("newline")>>])

PtFinish ==
  Called("Finish", FALSE,
         [pt |-> [tracker EXCEPT !.finished = TRUE],
          writes |-> IF showProgress
                     THEN <<Wrote("clear"), Wrote("showcursor")>>
                     ELSE << >>])

\* time passes between two calls
ClockTick ==
  /\ ticks < MaxTicks
  /\ \E d \in Delays : now' = now + d
  /\ ticks' = ticks + 1
  /\ UNCHANGED <<tracker, ptLast, lastRenderAt>>
  /\ UNCHANGED <<cvars, mvars, wvars, evars>>

\* a tracker fresh from NewProgressTracker
TrackerInit ==
  /\ rootPath = RootDir
  /\ tree = {}
  /\ opKind = "status"
  /\ skipListCfg = << >>
  /\ useDefaultSkips = TRUE
  /\ lost = {}
  /\ WalkerIdle
  /\ MatcherIdle
  /\ ExecutorIdle
  /\ TrackerIdle

TrackerNext ==
  \/ PtSetTotal
  \/ PtStart
  \/ PtUpdate
  \/ PtShowMessage
  \/ PtFinish
  \/ ClockTick

TrackerSpec == TrackerInit /\ [][TrackerNext]_vars


(***************************************************************************)
(* Claims about the ProgressTracker                                        *)
(***************************************************************************)
\* C24: over any sequence of ProgressTracker calls current never decreases;
\* each Update adds exactly 1 to current and adds 1 to the number of
\* repositories found when isGitRepo is true and 0 when it is false; no
\* other call changes either counter; and the number of repositories found
\* never exceeds current.
Counters(t) == <<t.current, t.gitRepoCount>>

C24_Steps ==
  /\ tracker'.current >= tracker.current
  /\ PtUpdate =>
       /\ tracker'.current = tracker.current + 1
       /\ tracker'.gitRepoCount =
            tracker.gitRepoCount + (IF ptLast'.isGitRepo THEN 1 ELSE 0)
  /\ (PtSetTotal \/ PtStart \/ PtShowMessage \/ PtFinish \/ ClockTick)
       => Counters(tracker') = Counters(tracker)
  /\ Counters(tracker') # Counters(tracker) => ptLast'.call = "Update"

C24_CountersOnlyGrowByUpdate ==
  /\ [](tracker.gitRepoCount <= tracker.current)
  /\ [][C24_Steps]_vars

C24_Witness ==
  /\ tracker.current = 2
  /\ tracker.gitRepoCount = 1
  /\ ptLast.call = "ShowMessage"
  /\ tracker.started

\* C25: every progress line render writes shows min(current / total, 1) as
\* its percentage, so at most 100, also when current exceeds total; and
\* with total = 0 render writes no progress line at all.
Bars(writes) == {i \in 1..Len(writes) : writes[i].w = "bar"}

C25_RenderClampsAndGuardsZero ==
  /\ \A i \in Bars(ptLast.writes) :
       LET bar == ptLast.writes[i] IN
       /\ bar.total > 0
       /\ bar.current >= 0
       /\ bar.pct <= 100
       /\ IF bar.current >= bar.total THEN bar.pct = 100
          ELSE /\ 2 * (100 * bar.current - bar.pct * bar.total) <= bar.total
               /\ 2 * (bar.pct * bar.total - 100 * bar.current) <= bar.total
  /\ (tracker.total = 0 /\ ptLast.call \in {"Start", "Update", "ShowMessage"})
       => Bars(ptLast.writes) = {}

C25_Witness ==
  /\ ptLast.call = "Update"
  /\ \E i \in Bars(ptLast.writes) :
       /\ ptLast.writes[i].current = 2
       /\ ptLast.writes[i].total = 1
       /\ ptLast.writes[i].pct = 100

\* C26: an Update of a started tracker writes the progress line only if at
\* least updateInterval has passed since the line was last written, by
\* whichever call.
C26_UpdateRendersAfterInterval ==
  [][(PtUpdate /\ tracker.started /\ HasBar(ptLast'.writes)
        /\ lastRenderAt # ZeroTime)
       => now - lastRenderAt >= updateInterval]_vars

\* C27: the cached ETA and the time of its last recomputation change only in
\* a render that comes at least etaUpdateInterval after the last
\* recomputation, and in Start, which sets the time and keeps the string;
\* every other render and every call that does not render leaves both as
\* they are, however the Update throttle decides.
ETAState(t) == <<t.cachedETA, t.lastETAUpdate>>

C27_Steps ==
  ETAState(tracker') # ETAState(tracker) =>
    \/ /\ PtStart
       /\ tracker'.cachedETA = tracker.cachedETA
       /\ tracker'.lastETAUpdate = now
    \/ /\ HasBar(ptLast'.writes)
       /\ ~PtStart
       /\ ElapsedAtLeast(now, tracker.lastETAUpdate, etaUpdateInterval)
       /\ tracker'.lastETAUpdate = now
       /\ tracker'.cachedETA \in calculateETA(tracker', now)

C27_ETAChangesOnlyWhenDue == [][C27_Steps]_vars

C27_Witness ==
  /\ tracker.started
  /\ tracker.startTime = 0
  /\ tracker.lastETAUpdate = etaUpdateInterval
  /\ tracker.cachedETA = ETA("%ds", 1, 0)
  /\ ptLast.call = "Update"
  /\ HasBar(ptLast.writes)

\* C28 as stated: after every ShowMessage on a started tracker that is not
\* finished the writes are clear-line, message, newline and the progress
\* line, the progress line last.
MessageWrites(writes) ==
  /\ Len(writes) >= 3
  /\ writes[1].w = "clear"
  /\ writes[2].w = "message"
  /\ writes[3].w = "newline"

C28_ProgressLineLast ==
  (ptLast.call = "ShowMessage" /\ tracker.started /\ ~tracker.finished)
    => /\ MessageWrites(ptLast.writes)
       /\ Len(ptLast.writes) = 4
       /\ ptLast.writes[4].w = "bar"

\* C28 amended: ShowMessage writes clear-line, message and newline, followed
\* by the progress line exactly when total is not 0 (with total = 0 the
\* newline is the last thing written); it changes neither current nor the
\* number of repositories found.
C28_MessageThenLine ==
  ptLast.call = "ShowMessage"
    => /\ MessageWrites(ptLast.writes)
       /\ IF tracker.total # 0
          THEN Len(ptLast.writes) = 4 /\ ptLast.writes[4].w = "bar"
          ELSE Len(ptLast.writes) = 3

C28_ProgressLineLastUnlessEmpty ==
  /\ []C28_MessageThenLine
  /\ [][PtShowMessage => Counters(tracker') = Counters(tracker)]_vars

C28_Witness ==
  /\ ptLast.call = "ShowMessage"
  /\ tracker.started /\ ~tracker.finished
  /\ tracker.total = 2
  /\ tracker.current = 1
  /\ Len(ptLast.writes) = 4
  /\ ptLast.writes[4].w = "bar"
  /\ ptLast.writes[4].current = 1


\* C29: progress mode is on from the start of pass 1 until the traversal is
\* over, so no Executor invocation of the traversal prints its output or
\* starts a spinner; it is off when walkDirectories has returned, after a
\* cancellation too; and an Executor invocation made then leaves the buffer
\* as it is, whatever the command hands back.
TraversalOver(i) == \E j \in 1..(i - 1) : log[j].ev = "finish"

C29_ProgressModeSpansTraversal ==
  /\ pc \in {"pass2", "running", "afterwalk"} => inProgressMode
  /\ \A i \in DOMAIN log :
       log[i].ev \in {"print", "spinner", "spinnerstop"} => TraversalOver(i)
  /\ pc = "returned" =>
       /\ ~inProgressMode
       /\ \A n \in Nodes, op \in {"status", "pull"}, outcome \in RunnerOutcomes :
            runCommandTail(op, PathOf(n), outcome, inProgressMode, ctxErr,
                           log, gitOutputBuffer).buffer = gitOutputBuffer

C29_Witness ==
  /\ pc = "returned"
  /\ ret = Canceled
  /\ ~inProgressMode
  /\ opKind = "status"
  /\ EventSeen("append")
  /\ EventSeen("ctxret")


\* C30: statusSingle and fetchSingle on a target that matches a skip rule
\* emit exactly one skipped event and return nil without reaching the
\* Executor or the command, whether the target is a repository or not; on a
\* target that matches no skip rule they emit no skipped event and return
\* the "not a repository" error exactly when the target is no repository.
EventsOf(c) == SubSeq(log, c.from + 1, c.to)

C30_SingleModeSkipsFirst ==
  xEntry \in SingleWrappers =>
    \A i \in DOMAIN xCalls :
      LET c == xCalls[i]
          path == PathOf(xNode)
          matched == \E pattern \in getSkipList : matchesSkipPattern(path, pattern)
      IN c.err # "pending" =>
           IF matched
             THEN /\ c.err = Nil
                  /\ EventsOf(c) = <<Ev("logskipped", path)>>
             ELSE /\ \A j \in DOMAIN EventsOf(c) : EventsOf(c)[j].ev # "logskipped"
                  /\ c.err = NotRepo <=> ~IsRepository(path)
                  /\ IsRepository(path) => EventsOf(c)[1].ev \in {"run", "spinner"}

C30_Witness ==
  /\ xEntry = "fetchSingle"
  /\ xNode = <<Vendor, Lib>>
  /\ IsRepository(PathOf(xNode))
  /\ Len(xCalls) = 1
  /\ xCalls[1].err = Nil
  /\ log = <<Ev("logskipped", PathOf(xNode))>>

====
